---- MODULE Spec2Model ----
(***************************************************************************)
(* Model of colab_to_sphinx.py: the HTML-to-RST walk (html_to_rst), the    *)
(* heading-anchor extraction (extract_toc_structure), the project          *)
(* scaffolder (create_sphinx_project), the pandoc route with its fallback  *)
(* (convert_with_pandoc, convert_colab_to_sphinx) and the build invocation *)
(* (build_documentation).                                                  *)
(*                                                                         *)
(* A Python str is a sequence of one-character strings.  A parsed HTML     *)
(* document (the BeautifulSoup tree) is a sequence of nodes; a node is a   *)
(* text node or an element with a tag name, class tokens and children.     *)
(***************************************************************************)
EXTENDS Naturals, Sequences, FiniteSets, TLC

VARIABLES
    html_content,   \* html_to_rst / extract_toc_structure: the parsed input
    wpc,            \* position of the caller of the two pure functions
    idx,            \* html_to_rst: number of elements of find_all consumed
    rst_content,    \* html_to_rst: the list of output lines
    rst_result,     \* html_to_rst: the returned string
    toc_structure,  \* extract_toc_structure: the returned list
    pc,             \* position in main / convert_colab_to_sphinx
    notebook_html,  \* convert_colab_to_sphinx argument
    toc_html,       \* convert_colab_to_sphinx argument, one per compared run
    project_name,   \* convert_colab_to_sphinx argument
    fs,             \* output_dir on disk, one per compared run
    temp_html,      \* the NamedTemporaryFile of convert_with_pandoc
    pandoc_outcome, \* how the pandoc subprocess of the running conversion ended
    pandoc_ret,     \* what convert_with_pandoc is about to do at its exit
    exc,            \* the exception that left the running operation, or "none"
    ret,            \* the value the last finished operation returned
    last_call       \* the last finished operation and its arguments

vars == <<html_content, wpc, idx, rst_content, rst_result, toc_structure,
          pc, notebook_html, toc_html, project_name, fs, temp_html,
          pandoc_outcome, pandoc_ret, exc, ret, last_call>>

walk_vars == <<html_content, wpc, idx, rst_content, rst_result, toc_structure>>

pipe_vars == <<pc, notebook_html, toc_html, project_name, fs, temp_html,
               pandoc_outcome, pandoc_ret, exc, ret, last_call>>

(***************************************************************************)
(* Bounds of the model.                                                    *)
(***************************************************************************)
MaxHeadingLen == 4

MaxTextLen == 3

MaxItems == 3

SeqsUpTo(S, n) == UNION {[1..k -> S] : k \in 0..n}

(***************************************************************************)
(* Python str operations.                                                  *)
(***************************************************************************)
\* str.isspace characters that occur in the model's alphabets
Whitespace == {" ", "\t", "\n", "\r"}

UpperCase == <<"A","B","C","D","E","F","G","H","I","J","K","L","M",
               "N","O","P","Q","R","S","T","U","V","W","X","Y","Z">>

LowerCase == <<"a","b","c","d","e","f","g","h","i","j","k","l","m",
               "n","o","p","q","r","s","t","u","v","w","x","y","z">>

Digits == <<"0","1","2","3","4","5","6","7","8","9">>

Range(f) == {f[k] : k \in DOMAIN f}

\* the characters the regular expression class \w matches
WordChars == Range(UpperCase) \cup Range(LowerCase) \cup Range(Digits) \cup {"_"}

RECURSIVE lstrip(_)
lstrip(s) ==
    IF s # <<>> /\ Head(s) \in Whitespace THEN lstrip(Tail(s)) ELSE s

RECURSIVE rstrip(_)
rstrip(s) ==
    IF s # <<>> /\ s[Len(s)] \in Whitespace
    THEN rstrip(SubSeq(s, 1, Len(s) - 1))
    ELSE s

\* str.strip()
strip(s) == rstrip(lstrip(s))

\* str.lower()
lower(s) ==
    [k \in 1..Len(s) |->
        IF \E u \in 1..26 : UpperCase[u] = s[k]
        THEN LowerCase[CHOOSE u \in 1..26 : UpperCase[u] = s[k]]
        ELSE s[k]]

\* str.replace(old, new) for one-character old and new
replace(s, old, new) == [k \in 1..Len(s) |-> IF s[k] = old THEN new ELSE s[k]]

\* marker * n
Repeat(c, n) == [k \in 1..n |-> c]

RECURSIVE split(_, _)
\* str.split(sep) for a one-character sep
split(s, sep) ==
    IF \A k \in 1..Len(s) : s[k] # sep
    THEN <<s>>
    ELSE LET p == CHOOSE k \in 1..Len(s) :
                      s[k] = sep /\ \A j \in 1..(k - 1) : s[j] # sep
         IN  <<SubSeq(s, 1, p - 1)>> \o split(SubSeq(s, p + 1, Len(s)), sep)

RECURSIVE join(_, _)
\* sep.join(lines)
join(lines, sep) ==
    IF lines = <<>> THEN <<>>
    ELSE IF Len(lines) = 1 THEN lines[1]
    ELSE lines[1] \o sep \o join(Tail(lines), sep)

RECURSIVE str(_)
\* the decimal text of a natural number, as an f-string formats it
str(n) == IF n < 10 THEN <<Digits[n + 1]>> ELSE str(n \div 10) \o <<Digits[(n % 10) + 1]>>

\* int(element.name[1]) for a tag name h1..h9
int(d) == (CHOOSE k \in 1..10 : Digits[k] = d) - 1

(***************************************************************************)
(* The parsed document.                                                    *)
(***************************************************************************)
NavigableString(t) == [name |-> "#text", cls |-> {}, text |-> t, kids |-> <<>>]

Tag(n, c, k) == [name |-> n, cls |-> c, text |-> <<>>, kids |-> k]

RECURSIVE get_text(_)
\* element.get_text(): the text of all descendants, in document order
get_text(node) ==
    IF node.name = "#text" THEN node.text
    ELSE LET RECURSIVE cat(_)
             cat(ks) == IF ks = <<>> THEN <<>> ELSE get_text(Head(ks)) \o cat(Tail(ks))
         IN  cat(node.kids)

RECURSIVE find_all(_, _)
\* soup.find_all(names): every matching descendant, in document order
find_all(nodes, names) ==
    IF nodes = <<>> THEN <<>>
    ELSE LET n == Head(nodes)
         IN  (IF n.name \in names THEN <<n>> ELSE <<>>)
             \o find_all(n.kids, names)
             \o find_all(Tail(nodes), names)

\* element.find_all('li', recursive=False)
direct_li(element) == SelectSeq(element.kids, LAMBDA k : k.name = "li")

HeadingNames == {"h1", "h2", "h3", "h4", "h5", "h6"}

Allowlist == HeadingNames \cup {"p", "pre", "code", "ul", "ol", "div"}

\* the name of a tag as the sequence of its two characters, for name[1]
NameChars(n) ==
    CASE n = "h1" -> <<"h","1">> [] n = "h2" -> <<"h","2">>
      [] n = "h3" -> <<"h","3">> [] n = "h4" -> <<"h","4">>
      [] n = "h5" -> <<"h","5">> [] n = "h6" -> <<"h","6">>
      [] n = "h7" -> <<"h","7">> [] n = "h8" -> <<"h","8">>
      [] n = "h9" -> <<"h","9">>

(***************************************************************************)
(* html_to_rst: what each element of the scan appends to rst_content.      *)
(***************************************************************************)
Min(a, b) == IF a < b THEN a ELSE b

\* the character U+0060 (grave accent), which a TLA+ string cannot hold
GraveAccent == "U+0060"

\* RST heading markers (in order of preference)
markers == <<"=", "-", "^", "\"", "'", GraveAccent, "+">>

\* markers[min(level-1, len(markers)-1)], the list being indexed from 0
marker(level) == markers[Min(level - 1, Len(markers) - 1) + 1]

\* the underline as long as the untrimmed text, the table indexed by level
heading_lines_raw_length(element) ==
    LET level == int(NameChars(element.name)[2])
        text  == strip(get_text(element))
    IN  IF text = <<>> THEN <<>>
        ELSE << <<>>, text,
                Repeat(markers[Min(level, Len(markers) - 1) + 1], Len(get_text(element))),
                <<>> >>

heading_lines(element) ==
    LET level == int(NameChars(element.name)[2])
        text  == strip(get_text(element))
    IN  IF text = <<>> THEN <<>>
        ELSE << <<>>, text, Repeat(marker(level), Len(text)), <<>> >>

p_lines(element) ==
    LET text == strip(get_text(element))
    IN  IF text = <<>> THEN <<>> ELSE << text, <<>> >>

code_block_python == <<".","."," ","c","o","d","e","-","b","l","o","c","k",":",":"," ","p","y","t","h","o","n">>

code_block_text == <<".","."," ","c","o","d","e","-","b","l","o","c","k",":",":"," ","t","e","x","t">>

\* three spaces + line, for every line
indent(lines) == [k \in 1..Len(lines) |-> <<" ", " ", " ">> \o lines[k]]

\* the lines of the trimmed text instead of the raw text
pre_lines_trimmed(element) ==
    LET code_text == strip(get_text(element))
    IN  IF code_text = <<>> THEN <<>>
        ELSE << code_block_python, <<>> >>
             \o indent(split(code_text, "\n"))
             \o << <<>> >>

pre_lines(element) ==
    LET code_text == get_text(element)
    IN  IF strip(code_text) = <<>> THEN <<>>
        ELSE << code_block_python, <<>> >>
             \o indent(split(code_text, "\n"))
             \o << <<>> >>

\* an ordered item numbered by the count of items emitted so far
list_lines_emitted_count(element) ==
    LET lis == direct_li(element)
        RECURSIVE loop(_, _)
        loop(i, n) ==
            IF i >= Len(lis) THEN <<>>
            ELSE LET li_text == strip(get_text(lis[i + 1]))
                 IN  IF li_text = <<>> THEN loop(i + 1, n)
                     ELSE (IF element.name = "ul"
                           THEN << <<"*", " ">> \o li_text >>
                           ELSE << str(n + 1) \o <<".", " ">> \o li_text >>)
                          \o loop(i + 1, n + 1)
    IN  loop(0, 0) \o << <<>> >>

list_lines(element) ==
    LET lis == direct_li(element)
        RECURSIVE loop(_)
        \* for i, li in enumerate(...), i counted from 0
        loop(i) ==
            IF i >= Len(lis) THEN <<>>
            ELSE LET li_text == strip(get_text(lis[i + 1]))
                 IN  (IF li_text = <<>> THEN <<>>
                      ELSE IF element.name = "ul"
                      THEN << <<"*", " ">> \o li_text >>
                      ELSE << str(i + 1) \o <<".", " ">> \o li_text >>)
                     \o loop(i + 1)
    IN  loop(0) \o << <<>> >>

output_lines(element) ==
    LET output_text == strip(get_text(element))
    IN  IF output_text = <<>> THEN <<>>
        ELSE << code_block_text, <<>> >>
             \o indent(split(output_text, "\n"))
             \o << <<>> >>

\* the if / elif chain of the loop body
emit(element) ==
    IF element.name \in HeadingNames THEN heading_lines(element)
    ELSE IF element.name = "p" THEN p_lines(element)
    ELSE IF element.name = "pre" THEN pre_lines(element)
    ELSE IF element.name \in {"ul", "ol"} THEN list_lines(element)
    ELSE IF element.name = "div" /\ "output" \in element.cls THEN output_lines(element)
    ELSE <<>>

RECURSIVE walk(_)
walk(elements) ==
    IF elements = <<>> THEN <<>> ELSE emit(Head(elements)) \o walk(Tail(elements))

\* the whole function, as convert_colab_to_sphinx calls it
html_to_rst(html) == join(walk(find_all(html, Allowlist)), <<"\n">>)

(***************************************************************************)
(* extract_toc_structure.                                                  *)
(***************************************************************************)
\* re.sub(r'[^\w\s-]', '', s)
re_sub(s) == SelectSeq(s, LAMBDA c : c \in WordChars \/ c \in Whitespace \/ c = "-")

anchor(text) == replace(re_sub(lower(text)), " ", "-")

extract_toc_structure(html) ==
    LET headings == find_all(html, HeadingNames)
        RECURSIVE loop(_)
        loop(hs) ==
            IF hs = <<>> THEN <<>>
            ELSE LET level == int(NameChars(Head(hs).name)[2])
                     text  == strip(get_text(Head(hs)))
                 IN  (IF text # <<>>
                      THEN << [level |-> level, text |-> text, anchor |-> anchor(text)] >>
                      ELSE <<>>)
                     \o loop(Tail(hs))
    IN  loop(headings)

(***************************************************************************)
(* The documents the two pure functions are applied to.                    *)
(***************************************************************************)
HeadingAlphabet == {"A", " ", "\t", "!", "-"}

BlockAlphabet == {"x", " ", "\n"}

HeadingTexts == SeqsUpTo(HeadingAlphabet, MaxHeadingLen)

BlockTexts == SeqsUpTo(BlockAlphabet, MaxTextLen)

ItemTexts == {<<>>, <<" ">>, <<"A">>, <<"B", " ">>}

Headings == {Tag(h, {}, <<NavigableString(t)>>) : h \in HeadingNames, t \in HeadingTexts}

Blocks ==
    {Tag(n, {}, <<NavigableString(t)>>) : n \in {"p", "pre", "code", "div"}, t \in BlockTexts}
    \cup {Tag("div", c, <<NavigableString(t)>>) : c \in {{"output"}, {"cell", "output"}}, t \in BlockTexts}

ListOf(n, items) ==
    Tag(n, {}, [k \in 1..Len(items) |-> Tag("li", {}, <<NavigableString(items[k])>>)])

Lists == {ListOf(n, items) : n \in {"ul", "ol"}, items \in SeqsUpTo(ItemTexts, MaxItems)}

\* a paragraph, as the element that precedes the element of interest
Intro == Tag("p", {}, <<NavigableString(<<"x">>)>>)

\* nested and longer documents
Samples ==
    { \* a heading and a paragraph inside a div that is not an output div
      << Tag("div", {}, << Tag("h2", {}, <<NavigableString(<<"A">>)>>),
                           Tag("p", {}, <<NavigableString(<<"x">>)>>) >>) >>,
      \* an ordered list with text between its items and a list inside an item
      << Tag("ol", {}, << NavigableString(<<"\n">>),
                          Tag("li", {}, << NavigableString(<<"A">>),
                                           ListOf("ul", << <<"B">> >>) >>),
                          NavigableString(<<"\n">>),
                          Tag("li", {}, <<NavigableString(<<" ">>)>>),
                          Tag("li", {}, <<NavigableString(<<"B">>)>>) >>) >>,
      \* an ordered list whose last item is the eleventh
      << ListOf("ol", << <<"A">>, <<>>, <<"B">>, <<>>, <<>>, <<>>, <<>>, <<>>, <<>>,
                         <<"A">>, <<"B">> >>) >>,
      \* a heading whose text comes from an inline child
      << Tag("h3", {}, << NavigableString(<<" ">>),
                          Tag("b", {}, <<NavigableString(<<"A", " ", " ", "B">>)>>) >>),
         Tag("pre", {}, <<NavigableString(<<"x", " ", "=", " ", "1", "\n", "y", " ", "=", " ", "2">>)>>) >> }

Docs ==
    {<<e>> : e \in Headings \cup Blocks \cup Lists}
    \cup {<<Intro, e>> : e \in Headings \cup Blocks \cup Lists}
    \cup Samples

(***************************************************************************)
(* The caller of html_to_rst and extract_toc_structure.  html_to_rst is    *)
(* followed through its loop, one element of the scan per step.            *)
(***************************************************************************)
\* soup.find_all([...]) of html_to_rst
Elements == find_all(html_content, Allowlist)

\* the element the loop body is about to process
element == Elements[idx + 1]

InLoop == wpc = "html_to_rst" /\ idx < Len(Elements)

Extend(lines) ==
    /\ rst_content' = rst_content \o lines
    /\ idx' = idx + 1
    /\ UNCHANGED <<html_content, wpc, rst_result, toc_structure>>
    /\ UNCHANGED pipe_vars

CallHtmlToRst ==
    /\ wpc = "ready"
    /\ wpc' = "html_to_rst"
    /\ idx' = 0
    /\ rst_content' = <<>>
    /\ UNCHANGED <<html_content, rst_result, toc_structure>>
    /\ UNCHANGED pipe_vars

WalkHeading ==
    /\ InLoop
    /\ element.name \in HeadingNames
    /\ Extend(heading_lines(element))

WalkParagraph ==
    /\ InLoop
    /\ element.name = "p"
    /\ Extend(p_lines(element))

WalkPre ==
    /\ InLoop
    /\ element.name = "pre"
    /\ Extend(pre_lines(element))

WalkList ==
    /\ InLoop
    /\ element.name \in {"ul", "ol"}
    /\ Extend(list_lines(element))

WalkOutputDiv ==
    /\ InLoop
    /\ element.name = "div" /\ "output" \in element.cls
    /\ Extend(output_lines(element))

\* a code element, or a div without the output class: no branch applies
WalkIgnored ==
    /\ InLoop
    /\ \/ element.name = "code"
       \/ element.name = "div" /\ "output" \notin element.cls
    /\ Extend(<<>>)

WalkReturn ==
    /\ wpc = "html_to_rst"
    /\ idx = Len(Elements)
    /\ rst_result' = join(rst_content, <<"\n">>)
    /\ wpc' = "html_to_rst returned"
    /\ UNCHANGED <<html_content, idx, rst_content, toc_structure>>
    /\ UNCHANGED pipe_vars

CallExtractTocStructure ==
    /\ wpc = "ready"
    /\ toc_structure' = extract_toc_structure(html_content)
    /\ wpc' = "extract_toc_structure returned"
    /\ UNCHANGED <<html_content, idx, rst_content, rst_result>>
    /\ UNCHANGED pipe_vars

(***************************************************************************)
(* The output directory on disk.  project_path itself is absent, a         *)
(* directory or a regular file; each name inside it is absent, a directory *)
(* or a regular file with its content.                                     *)
(***************************************************************************)
EntryNames == {"conf.py", "index.rst", "notebook_content.rst", "_static", "_templates", "_build"}

Absent == [kind |-> "absent", data |-> <<>>]

Dir == [kind |-> "dir", data |-> <<>>]

File(data) == [kind |-> "file", data |-> data]

\* the outcome of a file-system call: the disk after it and the exception raised
Ok(disk) == [disk |-> disk, exc |-> "none"]

Raise(disk, e) == [disk |-> disk, exc |-> e]

\* os.makedirs(path) without exist_ok: an existing directory raises too
os_makedirs_no_exist_ok(disk, path) ==
    IF path = "."
    THEN IF disk.root # "absent" THEN Raise(disk, "FileExistsError")
         ELSE Ok([disk EXCEPT !.root = "dir"])
    ELSE IF disk.entries[path].kind # "absent" THEN Raise(disk, "FileExistsError")
    ELSE Ok([disk EXCEPT !.entries[path] = Dir])

\* os.makedirs(path, exist_ok=True); "." is project_path itself
os_makedirs(disk, path) ==
    IF disk.root = "file"
    THEN Raise(disk, IF path = "." THEN "FileExistsError" ELSE "NotADirectoryError")
    ELSE IF path = "." THEN Ok([disk EXCEPT !.root = "dir"])
    ELSE IF disk.entries[path].kind = "file" THEN Raise(disk, "FileExistsError")
    ELSE Ok([disk EXCEPT !.root = "dir", !.entries[path] = Dir])

\* with open(path, 'w') as f: f.write(data)
write_file(disk, path, data) ==
    IF disk.root # "dir" THEN Raise(disk, "FileNotFoundError")
    ELSE IF disk.entries[path].kind = "dir" THEN Raise(disk, "IsADirectoryError")
    ELSE Ok([disk EXCEPT !.entries[path] = File(data)])

(***************************************************************************)
(* create_sphinx_project.  A fixed stretch of a template is kept as one    *)
(* piece of the text; the project name is spliced in character by          *)
(* character.                                                              *)
(***************************************************************************)
conf_content(name) ==
    <<"\n">>
    \o <<"# Configuration file for the Sphinx documentation builder.\n">>
    \o <<"\n">>
    \o <<"project = '">>
    \o name
    \o <<"'\n">>
    \o <<"copyright = '2025'\n">>
    \o <<"author = 'Author'\n">>
    \o <<"release = '1.0'\n">>
    \o <<"\n">>
    \o <<"# Add any Sphinx extension module names here\n">>
    \o <<"extensions = [\n">>
    \o <<"    'sphinx.ext.autodoc',\n">>
    \o <<"    'sphinx.ext.viewcode',\n">>
    \o <<"    'sphinx.ext.napoleon',\n">>
    \o <<"    'sphinx.ext.githubpages'  # For GitHub Pages deployment\n">>
    \o <<"]\n">>
    \o <<"\n">>
    \o <<"templates_path = ['_templates']\n">>
    \o <<"exclude_patterns = ['_build', 'Thumbs.db', '.DS_Store']\n">>
    \o <<"\n">>
    \o <<"# HTML output options\n">>
    \o <<"html_theme = 'sphinx_rtd_theme'\n">>
    \o <<"html_static_path = ['_static']\n">>
    \o <<"\n">>
    \o <<"# Theme options for better sidebar TOC\n">>
    \o <<"html_theme_options = {\n">>
    \o <<"    'navigation_depth': 4,\n">>
    \o <<"    'collapse_navigation': False,\n">>
    \o <<"    'sticky_navigation': True,\n">>
    \o <<"    'includehidden': True,\n">>
    \o <<"    'titles_only': False,\n">>
    \o <<"    'display_version': True,\n">>
    \o <<"    'logo_only': False,\n">>
    \o <<"}\n">>
    \o <<"\n">>
    \o <<"# Enable section numbering\n">>
    \o <<"html_show_sourcelink = False\n">>
    \o <<"html_show_sphinx = False\n">>

index_content(name) ==
    <<"\n">>
    \o name
    \o <<"\n">>
    \o Repeat("=", Len(name))
    \o <<"\n">>
    \o <<"\n">>
    \o <<"Welcome to the documentation for ">>
    \o name
    \o <<".\n">>
    \o <<"\n">>
    \o <<".. toctree::\n">>
    \o <<"   :maxdepth: 3\n">>
    \o <<"   :caption: Contents:\n">>
    \o <<"   :numbered:\n">>
    \o <<"\n">>
    \o <<"   notebook_content\n">>
    \o <<"\n">>
    \o <<"Indices and tables\n">>
    \o <<"==================\n">>
    \o <<"\n">>
    \o <<"* :ref:">>
    \o <<GraveAccent>>
    \o <<"genindex">>
    \o <<GraveAccent>>
    \o <<"\n">>
    \o <<"* :ref:">>
    \o <<GraveAccent>>
    \o <<"modindex">>
    \o <<GraveAccent>>
    \o <<"\n">>
    \o <<"* :ref:">>
    \o <<GraveAccent>>
    \o <<"search">>
    \o <<GraveAccent>>
    \o <<"\n">>

create_sphinx_project(name, disk) ==
    LET \* each statement runs on the disk the one before left, unless that raised
        r1 == os_makedirs(disk, ".")
        r2 == IF r1.exc # "none" THEN r1
              ELSE write_file(r1.disk, "conf.py", conf_content(name))
        r3 == IF r2.exc # "none" THEN r2
              ELSE write_file(r2.disk, "index.rst", index_content(name))
        r4 == IF r3.exc # "none" THEN r3 ELSE os_makedirs(r3.disk, "_static")
    IN  IF r4.exc # "none" THEN r4 ELSE os_makedirs(r4.disk, "_templates")

(***************************************************************************)
(* convert_colab_to_sphinx: the built-in route.                            *)
(***************************************************************************)
full_rst_content(notebook_rst) ==
    <<"\n","N","o","t","e","b","o","o","k"," ","C","o","n","t","e","n","t","\n">>
    \o <<"=","=","=","=","=","=","=","=","=","=","=","=","=","=","=","=","\n">>
    \o <<"\n">>
    \o notebook_rst
    \o <<"\n">>

\* the output file opened with 'a': what pandoc left is kept
builtin_convert_append(nb, toc, disk) ==
    write_file(disk, "notebook_content.rst",
               disk.entries["notebook_content.rst"].data
                   \o full_rst_content(html_to_rst(nb)))

\* the table of contents rendered into the output as well
builtin_convert_toc(nb, toc, disk) ==
    write_file(disk, "notebook_content.rst",
               full_rst_content(html_to_rst(toc) \o html_to_rst(nb)))

\* the body of "if not convert_with_pandoc(...)", over the arguments of
\* convert_colab_to_sphinx
builtin_convert(nb, toc, disk) ==
    write_file(disk, "notebook_content.rst", full_rst_content(html_to_rst(nb)))

(***************************************************************************)
(* The caller of the pipeline.  Two runs are followed side by side: they   *)
(* get the same arguments and meet the same environment, except for        *)
(* toc_html.  No branch of the code reads toc_html, so the two runs share  *)
(* their position, their exceptions and their return values.               *)
(***************************************************************************)
Runs == {1, 2}

ProjectNames == {<<"D", "o", "c">>, <<"N", "B", " ", "1">>}

Notebooks ==
    { <<>>,
      <<Tag("h2", {}, <<NavigableString(<<"A", " ", "B">>)>>), Intro>>,
      <<ListOf("ol", << <<"A">>, <<>>, <<"B">> >>),
        Tag("pre", {}, <<NavigableString(<<"x", "\n", "y">>)>>)>> }

Tocs == { <<>>, <<ListOf("ul", << <<"A">> >>)>> }

\* what pandoc may have written to the output path when it exits zero
PandocOutputs == { <<"A", "\n", "=", "\n">> }

\* what pandoc may have left at the output path when it fails
PartialOutputs == { <<>>, <<"A", "\n">> }

EmptyDisk == [root |-> "absent", entries |-> [n \in EntryNames |-> Absent]]

InitialDisks ==
    { EmptyDisk,
      [EmptyDisk EXCEPT !.root = "dir"],
      [EmptyDisk EXCEPT !.root = "file"],
      [EmptyDisk EXCEPT !.root = "dir", !.entries["_static"] = File(<<>>)],
      [EmptyDisk EXCEPT !.root = "dir", !.entries["_templates"] = Dir,
                        !.entries["notebook_content.rst"] = File(<<"o", "l", "d">>)] }

NoTemp == [exists |-> FALSE, data |-> <<>>]

\* again: the call repeats the call before it, which returned (same operation,
\* same project name, and nothing else ran on the directory in between)
Call(op, name, outcome, result) ==
    [op |-> op, name |-> name, outcome |-> outcome, result |-> result, again |-> FALSE]

Result(e) == IF e = "none" THEN "returned" ELSE "raised"

\* create_sphinx_project(project_name, project_path), called on its own
CreateSphinxProject(name) ==
    /\ pc = "idle"
    /\ LET r == [run \in Runs |-> create_sphinx_project(name, fs[run])]
       IN  /\ fs' = [run \in Runs |-> r[run].disk]
           /\ exc' = r[1].exc
           /\ ret' = IF r[1].exc = "none" THEN "None" ELSE "no value"
           /\ last_call' =
                 [Call("create_sphinx_project", name, "none", Result(r[1].exc))
                    EXCEPT !.again = /\ last_call.op = "create_sphinx_project"
                                     /\ last_call.name = name
                                     /\ last_call.result = "returned"]
    /\ UNCHANGED <<pc, notebook_html, toc_html, project_name, temp_html,
                   pandoc_outcome, pandoc_ret>>
    /\ UNCHANGED walk_vars

\* convert_colab_to_sphinx, up to the call of convert_with_pandoc
ConvertBegin(nb, tocs, name) ==
    /\ pc = "idle"
    /\ notebook_html' = nb
    /\ toc_html' = tocs
    /\ project_name' = name
    /\ pandoc_outcome' = "none"
    /\ pandoc_ret' = "none"
    /\ LET r == [run \in Runs |-> create_sphinx_project(name, fs[run])]
       IN  /\ fs' = [run \in Runs |-> r[run].disk]
           /\ exc' = r[1].exc
           /\ ret' = "no value"
           /\ IF r[1].exc = "none"
              THEN pc' = "convert_with_pandoc" /\ UNCHANGED last_call
              ELSE /\ pc' = "idle"
                   /\ last_call' = Call("convert_colab_to_sphinx", name, "none", "raised")
    /\ UNCHANGED temp_html
    /\ UNCHANGED walk_vars

\* convert_with_pandoc: the with block.  The file is created (delete=False)
\* and the write either succeeds or raises (a character the encoding cannot
\* hold, a full disk), which leaves convert_with_pandoc and
\* convert_colab_to_sphinx.  temp_html is the file of the latest call.
TempWrite(written) ==
    /\ pc = "convert_with_pandoc"
    /\ IF written
       THEN /\ temp_html' = [exists |-> TRUE, data |-> notebook_html]
            /\ pc' = "subprocess"
            /\ UNCHANGED <<exc, last_call>>
       ELSE /\ temp_html' = [exists |-> TRUE, data |-> <<>>]
            /\ pc' = "idle"
            /\ exc' = "UnicodeEncodeError"
            /\ last_call' = Call("convert_colab_to_sphinx", project_name, "none", "raised")
    /\ UNCHANGED <<notebook_html, toc_html, project_name, fs, pandoc_outcome,
                   pandoc_ret, ret>>
    /\ UNCHANGED walk_vars

\* convert_with_pandoc: subprocess.run([...], check=True) and the except clauses
RunPandoc(outcome, out) ==
    /\ pc = "subprocess"
    /\ temp_html.exists
    /\ pandoc_outcome' = outcome
    /\ \/ /\ outcome = "exit 0"
          /\ out \in PandocOutputs
          /\ fs' = [run \in Runs |->
                      [fs[run] EXCEPT !.entries["notebook_content.rst"] = File(out)]]
          /\ pandoc_ret' = "True"
       \/ /\ outcome = "exit 1"
          /\ out \in PartialOutputs
          /\ fs' = [run \in Runs |->
                      [fs[run] EXCEPT !.entries["notebook_content.rst"] = File(out)]]
          /\ pandoc_ret' = "False"
       \/ /\ outcome = "exit 1, nothing written"
          /\ out = <<>>
          /\ UNCHANGED fs
          /\ pandoc_ret' = "False"
       \/ /\ outcome = "FileNotFoundError"
          /\ out = <<>>
          /\ UNCHANGED fs
          /\ pandoc_ret' = "False"
       \/ /\ outcome = "PermissionError"
          /\ out = <<>>
          /\ UNCHANGED fs
          /\ pandoc_ret' = "raise"
    /\ pc' = "finally"
    /\ UNCHANGED <<notebook_html, toc_html, project_name, temp_html, exc, ret, last_call>>
    /\ UNCHANGED walk_vars

\* convert_with_pandoc: the finally clause, and what follows its exit in
\* convert_colab_to_sphinx when the built-in route is not taken
Finally ==
    /\ pc = "finally"
    /\ temp_html' = NoTemp
    /\ \/ /\ pandoc_ret = "True"
          /\ pc' = "idle"
          /\ ret' = "output_dir"
          /\ last_call' = Call("convert_colab_to_sphinx", project_name, pandoc_outcome, "returned")
          /\ UNCHANGED exc
       \/ /\ pandoc_ret = "False"
          /\ pc' = "builtin"
          /\ UNCHANGED <<exc, ret, last_call>>
       \/ /\ pandoc_ret = "raise"
          /\ pc' = "idle"
          /\ exc' = pandoc_outcome
          /\ last_call' = Call("convert_colab_to_sphinx", project_name, pandoc_outcome, "raised")
          /\ UNCHANGED ret
    /\ UNCHANGED <<notebook_html, toc_html, project_name, fs, pandoc_outcome, pandoc_ret>>
    /\ UNCHANGED walk_vars

\* convert_colab_to_sphinx: the built-in route and the return
BuiltinConvert ==
    /\ pc = "builtin"
    /\ LET r == [run \in Runs |-> builtin_convert(notebook_html, toc_html[run], fs[run])]
       IN  /\ fs' = [run \in Runs |-> r[run].disk]
           /\ exc' = r[1].exc
           /\ ret' = IF r[1].exc = "none" THEN "output_dir" ELSE "no value"
           /\ last_call' = Call("convert_colab_to_sphinx", project_name, pandoc_outcome,
                                Result(r[1].exc))
    /\ pc' = "idle"
    /\ UNCHANGED <<notebook_html, toc_html, project_name, temp_html, pandoc_outcome,
                   pandoc_ret>>
    /\ UNCHANGED walk_vars

\* build_documentation(project_path): sphinx-build exits zero, exits non-zero
\* (CalledProcessError, caught) or cannot be started (not caught)
BuildDocumentation(outcome) ==
    /\ pc = "idle"
    /\ \/ /\ outcome = "exit 0"
          /\ fs' = [run \in Runs |-> [fs[run] EXCEPT !.entries["_build"] = Dir]]
          /\ exc' = "none"
          /\ ret' = "True"
       \/ /\ outcome = "exit 1"
          /\ UNCHANGED fs
          /\ exc' = "none"
          /\ ret' = "False"
       \/ /\ outcome = "FileNotFoundError"
          /\ UNCHANGED fs
          /\ exc' = "FileNotFoundError"
          /\ ret' = "no value"
    /\ last_call' = Call("build_documentation", <<>>, outcome, Result(exc'))
    /\ UNCHANGED <<pc, notebook_html, toc_html, project_name, temp_html,
                   pandoc_outcome, pandoc_ret>>
    /\ UNCHANGED walk_vars

(***************************************************************************)
(* The two specifications: the pipeline, and the two pure functions.       *)
(***************************************************************************)
WalkOff ==
    /\ html_content = <<>>
    /\ wpc = "off"
    /\ idx = 0
    /\ rst_content = <<>>
    /\ rst_result = <<>>
    /\ toc_structure = <<>>

PipeOff(p) ==
    /\ pc = p
    /\ notebook_html = <<>>
    /\ toc_html = [run \in Runs |-> <<>>]
    /\ project_name = <<>>
    /\ temp_html = NoTemp
    /\ pandoc_outcome = "none"
    /\ pandoc_ret = "none"
    /\ exc = "none"
    /\ ret = "no value"
    /\ last_call = Call("none", <<>>, "none", "none")

Init ==
    /\ WalkOff
    /\ PipeOff("idle")
    /\ \E disk \in InitialDisks : fs = [run \in Runs |-> disk]

Next ==
    \/ \E name \in ProjectNames : CreateSphinxProject(name)
    \/ \E nb \in Notebooks, t1 \in Tocs, t2 \in Tocs, name \in ProjectNames :
          ConvertBegin(nb, <<t1, t2>>, name)
    \/ \E written \in BOOLEAN : TempWrite(written)
    \/ \E outcome \in {"exit 0", "exit 1", "exit 1, nothing written",
                       "FileNotFoundError", "PermissionError"},
          out \in PandocOutputs \cup PartialOutputs :
          RunPandoc(outcome, out)
    \/ Finally
    \/ BuiltinConvert
    \/ \E outcome \in {"exit 0", "exit 1", "FileNotFoundError"} : BuildDocumentation(outcome)

Spec == Init /\ [][Next]_vars

InitWalk ==
    /\ html_content \in Docs
    /\ wpc = "ready"
    /\ idx = 0
    /\ rst_content = <<>>
    /\ rst_result = <<>>
    /\ toc_structure = <<>>
    /\ PipeOff("off")
    /\ fs = [run \in Runs |-> EmptyDisk]

NextWalk ==
    \/ CallHtmlToRst
    \/ WalkHeading
    \/ WalkParagraph
    \/ WalkPre
    \/ WalkList
    \/ WalkOutputDiv
    \/ WalkIgnored
    \/ WalkReturn
    \/ CallExtractTocStructure

SpecWalk == InitWalk /\ [][NextWalk]_vars

(***************************************************************************)
(* Properties of the pipeline, checked under Spec.                         *)
(***************************************************************************)
NotebookContentHeader ==
    <<"\n","N","o","t","e","b","o","o","k"," ","C","o","n","t","e","n","t","\n",
      "=","=","=","=","=","=","=","=","=","=","=","=","=","=","=","=","\n","\n">>

\* notebook_content.rst holds the header block around html_to_rst(notebook_html)
BuiltinContentWritten ==
    \A run \in Runs :
        fs[run].entries["notebook_content.rst"]
            = File(NotebookContentHeader \o html_to_rst(notebook_html) \o <<"\n">>)

ConvertEnded == pc = "idle" /\ last_call.op = "convert_colab_to_sphinx"

\* C1: when pandoc is absent or exits non-zero, convert_colab_to_sphinx leaves
\* in notebook_content.rst exactly the "Notebook Content" header block around
\* html_to_rst(notebook_html), whatever pandoc had written to that path.
C1_FallbackOverwrites ==
    (ConvertEnded /\ pandoc_outcome \in {"exit 1", "exit 1, nothing written", "FileNotFoundError"})
        => BuiltinContentWritten

\* pandoc exited non-zero on a notebook with content, and the conversion ended
C1_Witness ==
    /\ ConvertEnded
    /\ pandoc_outcome = "exit 1"
    /\ html_to_rst(notebook_html) # <<>>
    /\ fs[1].entries["notebook_content.rst"].kind = "file"

\* C2: once convert_with_pandoc has ended, by returning or by raising, its
\* temporary HTML file does not exist.
C2_TempFileDeleted == pc \in {"idle", "builtin"} => ~temp_html.exists

\* C3: every failure of the pandoc invocation (non-zero exit, tool not found,
\* any other error of launching it) ends in the built-in route:
\* convert_colab_to_sphinx writes the walker's output and returns output_dir,
\* and no exception leaves it.
C3_AnyFailureFallsBack ==
    (ConvertEnded /\ pandoc_outcome \in {"exit 1", "exit 1, nothing written",
                                         "FileNotFoundError", "PermissionError"})
        => /\ last_call.result = "returned"
           /\ exc = "none"
           /\ ret = "output_dir"
           /\ BuiltinContentWritten

\* C4: build_documentation returns a boolean for every outcome of sphinx-build:
\* True on exit zero, False on a non-zero exit, False when the tool is not
\* installed; no exception reaches the caller.
C4_BuildReturnsBoolean ==
    (pc = "idle" /\ last_call.op = "build_documentation")
        => /\ last_call.result = "returned"
           /\ exc = "none"
           /\ ret = IF last_call.outcome = "exit 0" THEN "True" ELSE "False"

\* C5: two runs of convert_colab_to_sphinx that differ only in toc_html write
\* the same conf.py, index.rst and notebook_content.rst.
C5_TocNeverWritten ==
    \A n \in {"conf.py", "index.rst", "notebook_content.rst"} :
        fs[1].entries[n] = fs[2].entries[n]

\* two runs with different toc_html have gone through the built-in route
C5_Witness ==
    /\ ConvertEnded
    /\ last_call.result = "returned"
    /\ toc_html[1] # toc_html[2]
    /\ pandoc_ret = "False"
    /\ fs[1].entries["notebook_content.rst"].kind = "file"
    /\ fs[1].entries["conf.py"].kind = "file"

\* C6: a second create_sphinx_project with the same project_name on the
\* directory the first one left does not raise, and conf.py and index.rst keep
\* exactly the contents the first run gave them.
C6_ScaffoldIdempotent ==
    [][ ( /\ pc = "idle" /\ pc' = "idle"
          /\ last_call.op = "create_sphinx_project"
          /\ last_call.result = "returned"
          /\ last_call'.op = "create_sphinx_project"
          /\ last_call'.again )
        => /\ last_call'.result = "returned"
           /\ exc' = "none"
           /\ \A run \in Runs : \A n \in {"conf.py", "index.rst"} :
                 /\ fs'[run].entries[n] = fs[run].entries[n]
                 /\ fs[run].entries[n].kind = "file" ]_vars

\* the second of two identical calls has returned
C6_Witness ==
    /\ pc = "idle"
    /\ last_call.op = "create_sphinx_project"
    /\ last_call.again
    /\ last_call.result = "returned"
    /\ \A n \in {"_static", "_templates"} : fs[1].entries[n].kind = "dir"

(***************************************************************************)
(* Properties of html_to_rst and extract_toc_structure, checked under      *)
(* SpecWalk.                                                               *)
(***************************************************************************)
\* the loop body runs on `element` in this step
Processes == wpc = "html_to_rst" /\ idx' = idx + 1

\* the element the loop body has just processed
Processed == Elements[idx]

HasProcessed == wpc = "html_to_rst" /\ idx >= 1

\* the lines the step appended
Emitted == SubSeq(rst_content', Len(rst_content) + 1, Len(rst_content'))

Appends == SubSeq(rst_content', 1, Len(rst_content)) = rst_content

MarkerTable == <<"=", "-", "^", "\"", "'", GraveAccent, "+">>

LevelOf(name) ==
    CASE name = "h1" -> 1 [] name = "h2" -> 2 [] name = "h3" -> 3
      [] name = "h4" -> 4 [] name = "h5" -> 5 [] name = "h6" -> 6

Trimmed(s) == s = <<>> \/ (s[1] \notin Whitespace /\ s[Len(s)] \notin Whitespace)

\* C7: a heading h1..h6 with non-empty trimmed text appends a blank line, the
\* text, an underline and a blank line; the underline is one marker repeated
\* len(text) times, the marker is entry level-1 of the table, a level beyond
\* the table gets the last marker, and levels 1-6 get distinct markers.
C7_HeadingUnderline ==
    /\ [][ (Processes /\ element.name \in HeadingNames
                      /\ strip(get_text(element)) # <<>>)
           => LET text == strip(get_text(element))
                  m    == MarkerTable[LevelOf(element.name)]
              IN  /\ Trimmed(text)
                  /\ rst_content' = rst_content
                        \o << <<>>, text, [k \in 1..Len(text) |-> m], <<>> >> ]_vars
    /\ \A level \in 1..7 : marker(level) = MarkerTable[level]
    /\ \A level \in 8..9 : marker(level) = MarkerTable[7]
    /\ \A l1 \in 1..6 : \A l2 \in 1..6 : l1 # l2 => marker(l1) # marker(l2)

\* an h6 heading with surrounding whitespace has been emitted
C7_Witness ==
    /\ HasProcessed
    /\ Processed.name = "h6"
    /\ get_text(Processed) = <<" ", "A", "!", "\t">>
    /\ rst_content = << <<>>, <<"A", "!">>, <<GraveAccent, GraveAccent>>, <<>> >>

\* C8: an ordered list appends, for every non-empty direct li child, the line
\* "<n>. <text>" with n the 1-based position of that li among all direct li
\* children, empty ones included; an empty item appends nothing but keeps its
\* number; then one blank line.
C8_OrderedListNumbering ==
    [][ (Processes /\ element.name = "ol")
        => LET lis      == direct_li(element)
               txt(n)   == strip(get_text(lis[n]))
               NonEmpty == {n \in 1..Len(lis) : txt(n) # <<>>}
               rank(n)  == Cardinality({m \in NonEmpty : m <= n})
           IN  /\ Appends
               /\ Len(Emitted) = Cardinality(NonEmpty) + 1
               /\ Emitted[Len(Emitted)] = <<>>
               /\ \A n \in NonEmpty :
                     Emitted[rank(n)] = str(n) \o <<".", " ">> \o txt(n) ]_vars

\* the list ["A", "", "B"] has been emitted as "1. A" and "3. B"
C8_Witness ==
    /\ HasProcessed
    /\ Processed = ListOf("ol", << <<"A">>, <<>>, <<"B", " ">> >>)
    /\ SubSeq(rst_content, Len(rst_content) - 2, Len(rst_content))
          = << <<"1", ".", " ", "A">>, <<"3", ".", " ", "B">>, <<>> >>

NewlineCount(s) == Cardinality({k \in 1..Len(s) : s[k] = "\n"})

\* C9: a pre element with non-empty trimmed text appends the line
\* ".. code-block:: python", a blank line, one line per newline-separated line
\* of the raw text, each three spaces followed by that line unchanged, and a
\* blank line.
C9_PreBlock ==
    [][ (Processes /\ element.name = "pre" /\ strip(get_text(element)) # <<>>)
        => LET raw  == get_text(element)
               n    == NewlineCount(raw) + 1
               body == SubSeq(Emitted, 3, n + 2)
               rest == [k \in 1..Len(body) |-> SubSeq(body[k], 4, Len(body[k]))]
           IN  /\ Appends
               /\ Len(Emitted) = n + 3
               /\ Emitted[1] = code_block_python
               /\ Emitted[2] = <<>>
               /\ Emitted[n + 3] = <<>>
               /\ \A k \in 1..n :
                     /\ Len(body[k]) >= 3
                     /\ SubSeq(body[k], 1, 3) = <<" ", " ", " ">>
                     /\ \A j \in 1..Len(rest[k]) : rest[k][j] # "\n"
               /\ join(rest, <<"\n">>) = raw ]_vars

\* the block "x = 1\ny = 2" has been emitted
C9_Witness ==
    /\ HasProcessed
    /\ Processed.name = "pre"
    /\ get_text(Processed) = <<"x", " ", "=", " ", "1", "\n", "y", " ", "=", " ", "2">>
    /\ SubSeq(rst_content, Len(rst_content) - 4, Len(rst_content))
          = << code_block_python, <<>>,
               <<" ", " ", " ", "x", " ", "=", " ", "1">>,
               <<" ", " ", " ", "y", " ", "=", " ", "2">>,
               <<>> >>

RECURSIVE CollapseWhitespace(_)
\* every run of whitespace replaced by one hyphen
CollapseWhitespace(s) ==
    IF s = <<>> THEN <<>>
    ELSE IF Head(s) \in Whitespace THEN <<"-">> \o CollapseWhitespace(lstrip(s))
    ELSE <<Head(s)>> \o CollapseWhitespace(Tail(s))

\* C10: the anchor of a heading is its text lowercased, without the
\* characters that are no word character, whitespace or hyphen, and with every
\* run of whitespace replaced by a single hyphen; it holds no whitespace.
C10_AnchorCollapsesWhitespace ==
    wpc = "extract_toc_structure returned"
        => \A k \in 1..Len(toc_structure) :
              LET entry == toc_structure[k]
              IN  /\ entry.anchor = CollapseWhitespace(re_sub(lower(entry.text)))
                  /\ \A j \in 1..Len(entry.anchor) : entry.anchor[j] \notin Whitespace

====
